---- MODULE Spec2Model ----
(***************************************************************************)
(* State-machine model of the sensor visualisation screens of nrfis:       *)
(*   "Screen"            frontend component Screen (generic package screen)*)
(*   "SteelFrameScreen"  frontend/app/src/screens/SteelFrameScreen.js      *)
(*   "AppSteelFrame"     SteelFrameScreen defined inline in App.js         *)
(* One of the three components is mounted (variable screen); the React     *)
(* state hooks of the component are the variables, every asynchronous      *)
(* refresh invocation is an entry of calls, suspended at one of its awaits.*)
(***************************************************************************)
EXTENDS Integers, Sequences, FiniteSets, TLC

VARIABLES
    screen,         \* which component is mounted
    data,           \* useState([])
    mode,           \* useState(0): 0 Model, 1 Chart
    live,           \* useState(false)
    liveMode,       \* useState(1): 0 Live, 1 Historical
    dataRange,      \* useState([])
    dataType,       \* useState("str")
    isLoading,      \* useState(false)
    chartOptions,   \* useState({sensors, showTemperature, temperatureData})
    modelOptions,   \* useState({showContext, colourMode, scale})
    modelModeEnabled, \* useState(true) (SteelFrameScreen only)
    livePackages,   \* LiveStatusContext.packages
    effectPending,  \* the useEffect on [livePackages] is scheduled, not yet run
    calls,          \* in-flight refresh invocations: id -> suspended frame
    issued,         \* number of refresh invocations started so far
    lastEvent       \* history: the step that produced the current state

vars == <<screen, data, mode, live, liveMode, dataRange, dataType, isLoading,
          chartOptions, modelOptions, modelModeEnabled, livePackages,
          effectPending, calls, issued, lastEvent>>

----------------------------------------------------------------------------
(* Bounds of the model *)

MaxRefreshes == 3      \* refresh invocations per behaviour
MaxInFlight == 2       \* refresh invocations suspended at the same time

----------------------------------------------------------------------------
(* Inputs *)

Screens == {"Screen", "SteelFrameScreen", "AppSteelFrame"}

Packages == {"steel-frame", "basement"}

\* props.packageServerName of the mounted Screen
PackageServerName == "steel-frame"

DataTypes == {"str", "raw"}

\* A JavaScript array value / the value undefined
Arr(s) == [isArray |-> TRUE, items |-> s]
Undefined == [isArray |-> FALSE, items |-> <<>>]

Ch(n, v) == [name |-> n, value |-> v]
Reading(t, chs) == [timestamp |-> t, readings |-> chs]

EmptySeries == <<>>
TwoChannelSeries ==
    << Reading(0, <<Ch("s1", 1), Ch("s2", 5)>>),
       Reading(1, <<Ch("s1", 3), Ch("s2", 2)>>) >>
\* four channels; the least and the greatest value are in the second reading
FourChannelSeries ==
    << Reading(3, <<Ch("s1", 4), Ch("s2", 4), Ch("s3", 7), Ch("s4", 6)>>),
       Reading(4, <<Ch("s1", 9), Ch("s2", 4), Ch("s3", -2), Ch("s4", 6)>>) >>

\* JSON bodies the sensor-data endpoint may answer with
SeriesResponses == {EmptySeries, TwoChannelSeries, FourChannelSeries}

\* JSON bodies the temperature endpoint may answer with
TemperatureResponses == { <<>>, <<[temperature |-> 20, timestamp |-> 0]>> }

\* fetchData and fetchTemperatureData of ../utils: the promise resolves with
\* the parsed body or rejects with the error of the failed fetch
FetchDataOutcomes == {"resolved", "rejected"}
FetchTemperatureDataOutcomes == {"resolved", "rejected"}

----------------------------------------------------------------------------
(* Pure helpers of refresh *)

\* Mutant: only the first reading is scanned
Flatten_FirstReadingOnly(series) ==
    IF series = <<>> THEN <<>>
    ELSE [i \in 1..Len(Head(series).readings) |-> Head(series).readings[i].value]

RECURSIVE Flatten(_)
\* data.reduce((acc, {timestamp, ...readings}) => acc.concat(Object.values(readings)), [])
Flatten(series) ==
    IF series = <<>> THEN <<>>
    ELSE [i \in 1..Len(Head(series).readings) |-> Head(series).readings[i].value]
         \o Flatten(Tail(series))

\* Math.min() and Math.max() of no arguments
Infinity == 1000000
NegInfinity == -1000000

MathMin(xs) ==
    IF xs = <<>> THEN Infinity
    ELSE CHOOSE m \in {xs[i] : i \in 1..Len(xs)} :
             \A j \in 1..Len(xs) : m <= xs[j]

MathMax(xs) ==
    IF xs = <<>> THEN NegInfinity
    ELSE CHOOSE m \in {xs[i] : i \in 1..Len(xs)} :
             \A j \in 1..Len(xs) : m >= xs[j]

\* const dataRange = [Math.min(...allReadings), Math.max(...allReadings)]
ComputeDataRange(series) == <<MathMin(Flatten(series)), MathMax(Flatten(series))>>

\* chartColours of ../utils
ChartColours == <<"colour0", "colour1", "colour2">>

\* Mutant: index <= 3 selects a fourth sensor
ComputeSensors_OffByOne(series) ==
    [i \in 1..Len(series[1].readings) |->
        [name |-> series[1].readings[i].name,
         isSelected |-> (i - 1) <= 3,
         colour |-> ChartColours[((i - 1) % Len(ChartColours)) + 1]]]

\* sensorNames.map((sensorName, index) => ({name, isSelected: index < 3, colour}))
\* (index is 0-based in the code, i is 1-based here)
ComputeSensors(series) ==
    [i \in 1..Len(series[1].readings) |->
        [name |-> series[1].readings[i].name,
         isSelected |-> (i - 1) < 3,
         colour |-> ChartColours[((i - 1) % Len(ChartColours)) + 1]]]

\* modelColourScale of ../utils; a missing key reads as undefined
UndefinedScale == <<"undefined">>
ModelColourScale(dt) ==
    IF dt = "str" THEN <<-200, 200>> ELSE UndefinedScale

\* scale: modelOptions.colourMode ? modelColourScale[dataType] : dataRange
ComputeScale(colourMode, dt, range) ==
    IF colourMode # 0 THEN ModelColourScale(dt) ELSE range

\* Mutant: the switch to chart mode is missing
ModeAfterCommit_NoSwitch(dt, m) == m

\* if (dataType === "raw") { setMode(1); }
ModeAfterCommit(dt, m) == IF dt = "raw" THEN 1 ELSE m

\* Mutant: the model mode button is never disabled
ModelModeEnabledAfterCommit_Always(dt) == TRUE

\* if (dataType == "raw") setModelModeEnabled(false) else setModelModeEnabled(true)
ModelModeEnabledAfterCommit(dt) == dt # "raw"

\* Mutant: setIsLoading(false) is missing
LoadingAfterSettle_Keep(cur) == cur

\* setIsLoading(false) after the try/catch
LoadingAfterSettle(cur) == FALSE

\* Mutant: the effect does not force historical mode
LiveModeAfterEffect_Keep(isLive, cur) == cur

\* if (!live) { setLiveMode(1); }
LiveModeAfterEffect(isLive, cur) == IF ~isLive THEN 1 ELSE cur

\* kind of step, the refresh invocation it belongs to (0: none), what the
\* step passed to console.error ("": nothing), and mode and liveMode before it
Event(k, id, err) ==
    [kind |-> k, id |-> id, error |-> err,
     modeBefore |-> mode, liveModeBefore |-> liveMode]

----------------------------------------------------------------------------
(* Initial state: the useState initialisers, the mount effect scheduled *)

\* Mutant: useState(1) for mode, the screen starts in chart mode
Init_StartsInChart ==
    /\ screen \in Screens
    /\ data = Arr(<<>>)
    /\ mode = 1
    /\ live = FALSE
    /\ liveMode = 1
    /\ dataRange = <<>>
    /\ dataType = "str"
    /\ isLoading = FALSE
    /\ chartOptions = [sensors |-> <<>>, showTemperature |-> FALSE,
                       temperatureData |-> <<>>]
    /\ modelOptions = [showContext |-> TRUE, colourMode |-> 0, scale |-> <<0, 0>>]
    /\ modelModeEnabled = TRUE
    /\ livePackages \in SUBSET Packages
    /\ effectPending = (screen = "Screen")
    /\ calls = << >>
    /\ issued = 0
    /\ lastEvent = [kind |-> "mount", id |-> 0, error |-> "",
                    modeBefore |-> 1, liveModeBefore |-> 1]

Init ==
    /\ screen \in Screens
    /\ data = Arr(<<>>)
    /\ mode = 0
    /\ live = FALSE
    /\ liveMode = 1
    /\ dataRange = <<>>
    /\ dataType = "str"
    /\ isLoading = FALSE
    /\ chartOptions = [sensors |-> <<>>, showTemperature |-> FALSE,
                       temperatureData |-> <<>>]
    /\ modelOptions = [showContext |-> TRUE, colourMode |-> 0, scale |-> <<0, 0>>]
    /\ modelModeEnabled = TRUE
    /\ livePackages \in SUBSET Packages
    /\ effectPending = (screen = "Screen")
    /\ calls = << >>
    /\ issued = 0
    /\ lastEvent = [kind |-> "mount", id |-> 0, error |-> "",
                    modeBefore |-> 0, liveModeBefore |-> 1]

----------------------------------------------------------------------------
(* Frames of suspended refresh invocations *)

InFlight == DOMAIN calls

Remove(id) == [i \in InFlight \ {id} |-> calls[i]]

CanIssue ==
    /\ ~effectPending
    /\ issued < MaxRefreshes
    /\ Cardinality(InFlight) < MaxInFlight

\* The frame of a refresh suspended at await fetchData(...): the arguments and
\* the chartOptions and modelOptions the closure captured at the render it was
\* created in. Of the captured objects only the keys that the spreads of lines
\* 76 and 87 let through are kept (sensors, temperatureData and scale are
\* overridden there). dataRange is recomputed from data when it is used.
NewFrame(dt) ==
    [stage |-> "fetchData", dataType |-> dt,
     chartOptions |-> [showTemperature |-> chartOptions.showTemperature],
     modelOptions |-> [showContext |-> modelOptions.showContext,
                       colourMode |-> modelOptions.colourMode],
     data |-> <<>>]

----------------------------------------------------------------------------
(* LiveStatusContext and the effect on [livePackages] (Screen) *)

\* The provider publishes a new packages array; Screen re-renders and React
\* schedules the effect, which it runs before it processes any other update.
LiveSetChanged(S) ==
    /\ screen = "Screen"
    /\ ~effectPending
    /\ livePackages' = S
    /\ effectPending' = TRUE
    /\ lastEvent' = Event("liveSetChanged", 0, "")
    /\ UNCHANGED <<screen, data, mode, live, liveMode, dataRange, dataType,
                   isLoading, chartOptions, modelOptions, modelModeEnabled,
                   calls, issued>>

LiveStatusEffect ==
    /\ screen = "Screen"
    /\ effectPending
    /\ LET isLive == PackageServerName \in livePackages IN
         /\ live' = isLive
         /\ liveMode' = LiveModeAfterEffect(isLive, liveMode)
    /\ effectPending' = FALSE
    /\ lastEvent' = Event("effect", 0, "")
    /\ UNCHANGED <<screen, data, mode, dataRange, dataType, isLoading,
                   chartOptions, modelOptions, modelModeEnabled, livePackages,
                   calls, issued>>

----------------------------------------------------------------------------
(* Screen.refresh *)

ScreenRefresh(dt) ==
    /\ screen = "Screen"
    /\ CanIssue
    /\ isLoading' = TRUE
    /\ issued' = issued + 1
    /\ calls' = calls @@ ((issued + 1) :> NewFrame(dt))
    /\ lastEvent' = Event("refresh", issued + 1, "")
    /\ UNCHANGED <<screen, data, mode, live, liveMode, dataRange, dataType,
                   chartOptions, modelOptions, modelModeEnabled, livePackages,
                   effectPending>>

\* await fetchData(...) resolves with series: lines 57-83 run up to the next
\* await, or up to the TypeError of destructuring data[0] of an empty array,
\* which the catch logs before setIsLoading(false).
ScreenFetchDataResolved(id, series) ==
    /\ screen = "Screen"
    /\ ~effectPending
    /\ id \in InFlight
    /\ calls[id].stage = "fetchData"
    /\ "resolved" \in FetchDataOutcomes
    /\ data' = Arr(series)
    /\ dataType' = calls[id].dataType
    /\ dataRange' = ComputeDataRange(series)
    /\ mode' = ModeAfterCommit(calls[id].dataType, mode)
    /\ IF series = <<>>
       THEN /\ isLoading' = LoadingAfterSettle(isLoading)
            /\ calls' = Remove(id)
            /\ lastEvent' = Event("fetchDataResolved", id, "TypeError")
       ELSE /\ isLoading' = isLoading
            /\ calls' = [calls EXCEPT ![id].stage = "fetchTemperatureData",
                                      ![id].data = series]
            /\ lastEvent' = Event("fetchDataResolved", id, "")
    /\ UNCHANGED <<screen, live, liveMode, chartOptions, modelOptions,
                   modelModeEnabled, livePackages, effectPending, issued>>

\* await fetchData(...) rejects: catch, console.error, setIsLoading(false)
ScreenFetchDataFailed(id) ==
    /\ screen = "Screen"
    /\ ~effectPending
    /\ id \in InFlight
    /\ calls[id].stage = "fetchData"
    /\ "rejected" \in FetchDataOutcomes
    /\ isLoading' = LoadingAfterSettle(isLoading)
    /\ calls' = Remove(id)
    /\ lastEvent' = Event("fetchDataFailed", id, "FetchError")
    /\ UNCHANGED <<screen, data, mode, live, liveMode, dataRange, dataType,
                   chartOptions, modelOptions, modelModeEnabled, livePackages,
                   effectPending, issued>>

\* await fetchTemperatureData(...) resolves: setChartOptions, setModelOptions
\* (both spread the options the closure captured), setIsLoading(false)
ScreenTemperatureResolved(id, temperature) ==
    /\ screen = "Screen"
    /\ ~effectPending
    /\ id \in InFlight
    /\ calls[id].stage = "fetchTemperatureData"
    /\ "resolved" \in FetchTemperatureDataOutcomes
    /\ chartOptions' =
           [showTemperature |-> calls[id].chartOptions.showTemperature,
            sensors |-> ComputeSensors(calls[id].data),
            temperatureData |-> temperature]
    /\ modelOptions' =
           [showContext |-> calls[id].modelOptions.showContext,
            colourMode |-> calls[id].modelOptions.colourMode,
            scale |-> ComputeScale(calls[id].modelOptions.colourMode,
                                   calls[id].dataType,
                                   ComputeDataRange(calls[id].data))]
    /\ isLoading' = LoadingAfterSettle(isLoading)
    /\ calls' = Remove(id)
    /\ lastEvent' = Event("temperatureResolved", id, "")
    /\ UNCHANGED <<screen, data, mode, live, liveMode, dataRange, dataType,
                   modelModeEnabled, livePackages, effectPending, issued>>

\* await fetchTemperatureData(...) rejects: catch, setIsLoading(false)
ScreenTemperatureFailed(id) ==
    /\ screen = "Screen"
    /\ ~effectPending
    /\ id \in InFlight
    /\ calls[id].stage = "fetchTemperatureData"
    /\ "rejected" \in FetchTemperatureDataOutcomes
    /\ isLoading' = LoadingAfterSettle(isLoading)
    /\ calls' = Remove(id)
    /\ lastEvent' = Event("temperatureFailed", id, "FetchError")
    /\ UNCHANGED <<screen, data, mode, live, liveMode, dataRange, dataType,
                   chartOptions, modelOptions, modelModeEnabled, livePackages,
                   effectPending, issued>>

----------------------------------------------------------------------------
(* SteelFrameScreen.refresh (src/screens/SteelFrameScreen.js) *)

SteelFrameRefresh(dt) ==
    /\ screen = "SteelFrameScreen"
    /\ CanIssue
    /\ isLoading' = TRUE
    /\ issued' = issued + 1
    /\ calls' = calls @@ ((issued + 1) :> NewFrame(dt))
    /\ lastEvent' = Event("refresh", issued + 1, "")
    /\ UNCHANGED <<screen, data, mode, live, liveMode, dataRange, dataType,
                   chartOptions, modelOptions, modelModeEnabled, livePackages,
                   effectPending>>

SteelFrameFetchDataResolved(id, series) ==
    /\ screen = "SteelFrameScreen"
    /\ id \in InFlight
    /\ "resolved" \in FetchDataOutcomes
    /\ data' = Arr(series)
    /\ dataType' = calls[id].dataType
    /\ mode' = ModeAfterCommit(calls[id].dataType, mode)
    /\ modelModeEnabled' = ModelModeEnabledAfterCommit(calls[id].dataType)
    /\ isLoading' = LoadingAfterSettle(isLoading)
    /\ calls' = Remove(id)
    /\ lastEvent' = Event("fetchDataResolved", id, "")
    /\ UNCHANGED <<screen, live, liveMode, dataRange, chartOptions,
                   modelOptions, livePackages, effectPending, issued>>

SteelFrameFetchDataFailed(id) ==
    /\ screen = "SteelFrameScreen"
    /\ id \in InFlight
    /\ "rejected" \in FetchDataOutcomes
    /\ isLoading' = LoadingAfterSettle(isLoading)
    /\ calls' = Remove(id)
    /\ lastEvent' = Event("fetchDataFailed", id, "FetchError")
    /\ UNCHANGED <<screen, data, mode, live, liveMode, dataRange, dataType,
                   chartOptions, modelOptions, modelModeEnabled, livePackages,
                   effectPending, issued>>

----------------------------------------------------------------------------
(* SteelFrameScreen.refresh and fetchData of App.js *)

\* fetchData of App.js: the body on success, undefined when fetch or
\* response.json() throws (the catch logs and falls off the end)
AppFetchDataResult(ok, series) == IF ok THEN Arr(series) ELSE Undefined

\* refresh() takes no arguments: dataType is the state the closure captured
AppRefresh ==
    /\ screen = "AppSteelFrame"
    /\ CanIssue
    /\ isLoading' = TRUE
    /\ issued' = issued + 1
    /\ calls' = calls @@ ((issued + 1) :> NewFrame(dataType))
    /\ lastEvent' = Event("refresh", issued + 1, "")
    /\ UNCHANGED <<screen, data, mode, live, liveMode, dataRange, dataType,
                   chartOptions, modelOptions, modelModeEnabled, livePackages,
                   effectPending>>

\* await fetchData(...) settles: setData(result); setIsLoading(false)
AppFetchDataSettled(id, ok, series) ==
    /\ screen = "AppSteelFrame"
    /\ id \in InFlight
    /\ ~ok => series = <<>>
    /\ data' = AppFetchDataResult(ok, series)
    /\ isLoading' = LoadingAfterSettle(isLoading)
    /\ calls' = Remove(id)
    /\ lastEvent' = IF ok THEN Event("fetchDataResolved", id, "")
                          ELSE Event("fetchDataFailed", id, "FetchError")
    /\ UNCHANGED <<screen, mode, live, liveMode, dataRange, dataType,
                   chartOptions, modelOptions, modelModeEnabled, livePackages,
                   effectPending, issued>>

\* setDataType handed to the menu (menuProps of App.js)
AppSetDataType(dt) ==
    /\ screen = "AppSteelFrame"
    /\ dataType' = dt
    /\ lastEvent' = Event("setDataType", 0, "")
    /\ UNCHANGED <<screen, data, mode, live, liveMode, dataRange, isLoading,
                   chartOptions, modelOptions, modelModeEnabled, livePackages,
                   effectPending, calls, issued>>

----------------------------------------------------------------------------
(* State setters handed to the menu *)

\* setMode={setMode}: every screen hands the raw setter to the menu
SetMode(m) ==
    /\ ~effectPending
    /\ mode' = m
    /\ lastEvent' = Event("setMode", 0, "")
    /\ UNCHANGED <<screen, data, live, liveMode, dataRange, dataType,
                   isLoading, chartOptions, modelOptions, modelModeEnabled,
                   livePackages, effectPending, calls, issued>>

\* setLiveMode={setLiveMode}
SetLiveMode(m) ==
    /\ screen = "Screen"
    /\ ~effectPending
    /\ liveMode' = m
    /\ lastEvent' = Event("setLiveMode", 0, "")
    /\ UNCHANGED <<screen, data, mode, live, dataRange, dataType, isLoading,
                   chartOptions, modelOptions, modelModeEnabled, livePackages,
                   effectPending, calls, issued>>

\* setChartOptions={setChartOptions}: the menu changes showTemperature
SetShowTemperature(b) ==
    /\ screen = "Screen"
    /\ ~effectPending
    /\ chartOptions' = [chartOptions EXCEPT !.showTemperature = b]
    /\ lastEvent' = Event("setChartOptions", 0, "")
    /\ UNCHANGED <<screen, data, mode, live, liveMode, dataRange, dataType,
                   isLoading, modelOptions, modelModeEnabled, livePackages,
                   effectPending, calls, issued>>

\* setModelOptions={setModelOptions}: the menu changes colourMode
SetColourMode(c) ==
    /\ screen = "Screen"
    /\ ~effectPending
    /\ modelOptions' = [modelOptions EXCEPT !.colourMode = c]
    /\ lastEvent' = Event("setModelOptions", 0, "")
    /\ UNCHANGED <<screen, data, mode, live, liveMode, dataRange, dataType,
                   isLoading, chartOptions, modelModeEnabled, livePackages,
                   effectPending, calls, issued>>

\* setModelOptions={setModelOptions}: the menu changes showContext
SetShowContext(b) ==
    /\ screen = "Screen"
    /\ ~effectPending
    /\ modelOptions' = [modelOptions EXCEPT !.showContext = b]
    /\ lastEvent' = Event("setModelOptions", 0, "")
    /\ UNCHANGED <<screen, data, mode, live, liveMode, dataRange, dataType,
                   isLoading, chartOptions, modelModeEnabled, livePackages,
                   effectPending, calls, issued>>

----------------------------------------------------------------------------

(* Groups of steps *)

\* LiveStatusContext, the effect that follows it, the live toggle of the menu
LiveStatusSteps ==
    \/ \E S \in SUBSET Packages : LiveSetChanged(S)
    \/ \E m \in {0, 1} : SetLiveMode(m)

ScreenRefreshSteps ==
    \/ \E dt \in DataTypes : ScreenRefresh(dt)
    \/ \E id \in InFlight, s \in SeriesResponses : ScreenFetchDataResolved(id, s)
    \/ \E id \in InFlight : ScreenFetchDataFailed(id)
    \/ \E id \in InFlight, t \in TemperatureResponses :
           ScreenTemperatureResolved(id, t)
    \/ \E id \in InFlight : ScreenTemperatureFailed(id)

SteelFrameSteps ==
    \/ \E dt \in DataTypes : SteelFrameRefresh(dt)
    \/ \E id \in InFlight, s \in SeriesResponses :
           SteelFrameFetchDataResolved(id, s)
    \/ \E id \in InFlight : SteelFrameFetchDataFailed(id)

AppSteps ==
    \/ AppRefresh
    \/ \E id \in InFlight, ok \in BOOLEAN, s \in SeriesResponses :
           AppFetchDataSettled(id, ok, s)
    \/ \E dt \in DataTypes : AppSetDataType(dt)

MenuOptionSteps ==
    \/ \E b \in BOOLEAN : SetShowTemperature(b)
    \/ \E c \in {0, 1} : SetColourMode(c)
    \/ \E b \in BOOLEAN : SetShowContext(b)

----------------------------------------------------------------------------
(* Specifications *)

\* Every component, every step
Next ==
    \/ LiveStatusEffect
    \/ LiveStatusSteps
    \/ ScreenRefreshSteps
    \/ SteelFrameSteps
    \/ AppSteps
    \/ \E m \in {0, 1} : SetMode(m)
    \/ MenuOptionSteps

Spec == Init /\ [][Next]_vars

\* The refresh invocations of the three components and the mode toggle, the
\* live set fixed at its initial value and the option objects left to refresh
NextRefresh ==
    \/ LiveStatusEffect
    \/ ScreenRefreshSteps
    \/ SteelFrameSteps
    \/ AppSteps
    \/ \E m \in {0, 1} : SetMode(m)

InitRefresh == Init /\ livePackages = {}

SpecRefresh == InitRefresh /\ [][NextRefresh]_vars

\* The fetch of invocation id settles: a continuation of its refresh runs
\* (one empty and one non-empty body, one dataType: isLoading depends on no
\* other input)
LoadingSettle(id) ==
    \/ ScreenFetchDataResolved(id, EmptySeries)
    \/ ScreenFetchDataResolved(id, TwoChannelSeries)
    \/ ScreenFetchDataFailed(id)
    \/ ScreenTemperatureResolved(id, <<>>)
    \/ ScreenTemperatureFailed(id)
    \/ SteelFrameFetchDataResolved(id, TwoChannelSeries)
    \/ SteelFrameFetchDataFailed(id)
    \/ \E ok \in BOOLEAN : AppFetchDataSettled(id, ok, EmptySeries)

NextLoading ==
    \/ LiveStatusEffect
    \/ ScreenRefresh("str")
    \/ SteelFrameRefresh("str")
    \/ AppRefresh
    \/ \E id \in InFlight : LoadingSettle(id)

\* The refresh invocations of the three components when the mount effect
\* runs and, as long as a fetch is outstanding, some outstanding fetch settles
SpecLoadingFair ==
    /\ InitRefresh
    /\ [][NextLoading]_vars
    /\ WF_vars(LiveStatusEffect)
    /\ WF_vars(\E id \in 1..MaxRefreshes : LoadingSettle(id))

\* Screen under live-set changes, live and mode toggles and failing refreshes
NextLive ==
    \/ LiveStatusEffect
    \/ LiveStatusSteps
    \/ \E dt \in DataTypes : ScreenRefresh(dt)
    \/ \E id \in InFlight : ScreenFetchDataFailed(id)
    \/ \E m \in {0, 1} : SetMode(m)

InitLive == Init /\ screen = "Screen"

SpecLive == InitLive /\ [][NextLive]_vars

\* Screen.refresh interleaved with the option changes of the menu, the live
\* set fixed at its initial value
NextOptions ==
    \/ LiveStatusEffect
    \/ \E dt \in DataTypes : ScreenRefresh(dt)
    \/ \E id \in InFlight : ScreenFetchDataResolved(id, TwoChannelSeries)
    \/ \E id \in InFlight : ScreenTemperatureResolved(id, <<>>)
    \/ MenuOptionSteps

InitOptions == Init /\ screen = "Screen" /\ livePackages = {}

SpecOptions == InitOptions /\ [][NextOptions]_vars

----------------------------------------------------------------------------
(* Properties *)

\* The state a refresh commits
Committed == <<data, dataType, dataRange, mode, chartOptions, modelOptions>>

\* The most recently issued refresh is still suspended at one of its awaits
LatestPending == issued \in InFlight

SettleKinds == {"fetchDataResolved", "fetchDataFailed",
                "temperatureResolved", "temperatureFailed"}

\* C1: a continuation of a refresh that is not the most recently issued one
\* changes none of data, dataType, dataRange, mode, chartOptions, modelOptions
\* (Screen and SteelFrameScreen).
C1_OnlyLatestRefreshCommits ==
    [][ ( /\ screen \in {"Screen", "SteelFrameScreen"}
          /\ lastEvent'.kind \in SettleKinds
          /\ lastEvent'.id # issued )
        => Committed' = Committed ]_vars

\* C2: the step in which the sensor-data fetch of a refresh fails leaves the
\* committed state unchanged, clears isLoading and issues no new fetch, in
\* each of the three components.
C2_FailedFetchChangesNothing ==
    [][ lastEvent'.kind = "fetchDataFailed"
        => /\ Committed' = Committed
           /\ isLoading' = FALSE
           /\ issued' = issued
           /\ InFlight' \subseteq InFlight ]_vars

\* C3: isLoading is true only while the most recently issued refresh has not
\* settled; when it has settled isLoading is false, older refreshes pending
\* or not.
C3_LoadingOnlyWhileLatestPending ==
    /\ isLoading => LatestPending
    /\ (issued > 0 /\ ~LatestPending) => ~isLoading

\* C3 witness: the latest refresh has just settled while an older one is
\* still pending, and isLoading is false
C3_Witness ==
    /\ lastEvent.kind \in SettleKinds
    /\ lastEvent.id = issued
    /\ ~LatestPending
    /\ InFlight # {}
    /\ ~isLoading

\* C4: while the most recently issued refresh is outstanding isLoading is
\* true, whatever else has happened since it was issued.
C4_LoadingWhileLatestPending == LatestPending => isLoading

\* C5: in Screen, dataType = "raw" implies mode = 1 (Chart).
C5_RawImpliesChart == (screen = "Screen" /\ dataType = "raw") => mode = 1

\* C6: in the state right after a refresh with dataType "raw" has committed
\* its fetched series (Screen and SteelFrameScreen), mode = 1 (Chart).
C6_RawCommitSwitchesToChart ==
    ( /\ screen \in {"Screen", "SteelFrameScreen"}
      /\ lastEvent.kind = "fetchDataResolved"
      /\ dataType = "raw" )
    => mode = 1

\* C6 witness: a raw refresh has just committed a non-empty series in Screen
\* while the mode was Model, and the mode is Chart now
C6_Witness ==
    /\ screen = "Screen"
    /\ lastEvent.kind = "fetchDataResolved"
    /\ lastEvent.modeBefore = 0
    /\ dataType = "raw"
    /\ data = Arr(TwoChannelSeries)
    /\ mode = 1

\* C7: in Screen, liveMode = 0 (Live) implies that the package is in
\* livePackages.
C7_LiveOnlyIfInLiveSet ==
    (screen = "Screen" /\ liveMode = 0) => PackageServerName \in livePackages

\* C8: a step that removes the package from livePackages while liveMode = 0
\* schedules the effect, and the step that follows a scheduled effect with
\* the package not in livePackages is the effect itself, which leaves
\* liveMode = 1 (Historical) and live = FALSE.
C8_RemovalForcesHistorical ==
    [][ /\ ( /\ liveMode = 0
             /\ PackageServerName \in livePackages
             /\ PackageServerName \notin livePackages' )
           => effectPending'
        /\ ( effectPending /\ PackageServerName \notin livePackages )
           => /\ lastEvent'.kind = "effect"
              /\ liveMode' = 1
              /\ live' = FALSE ]_vars

\* C8 witness: the effect has just run after the package left livePackages
\* in Live mode, and liveMode is Historical
C8_Witness ==
    /\ lastEvent.kind = "effect"
    /\ lastEvent.liveModeBefore = 0
    /\ live = FALSE
    /\ liveMode = 1
    /\ PackageServerName \notin livePackages

\* C9: setLiveMode(0) from the menu while the package is not in livePackages
\* changes no state variable; while it is in livePackages it sets liveMode
\* to 0.
C9_LiveToggleRejectedWhenNotLive ==
    [][ ( lastEvent'.kind = "setLiveMode" /\ liveMode' = 0 )
        => IF PackageServerName \in livePackages
           THEN liveMode' = 0
           ELSE UNCHANGED <<data, mode, live, liveMode, dataRange, dataType,
                            isLoading, chartOptions, modelOptions,
                            livePackages, calls>> ]_vars

\* C10: in the state right after Screen.refresh committed an empty series,
\* dataRange = [0, 0], chartOptions.sensors = [] and nothing was passed to
\* console.error.
C10_EmptySeriesCommit ==
    ( /\ screen = "Screen"
      /\ lastEvent.kind = "fetchDataResolved"
      /\ data = Arr(EmptySeries) )
    => /\ dataRange = <<0, 0>>
       /\ chartOptions.sensors = <<>>
       /\ lastEvent.error = ""

\* The sensors entry of chartOptions that line 77 computes from a series
SensorsOf(series) == IF series = <<>> THEN <<>> ELSE ComputeSensors(series)

\* C11: in Screen chartOptions.sensors changes only in the step in which the
\* most recently issued refresh commits its options, and whenever the most
\* recently issued refresh settles after committing a non-empty series the
\* list is the one computed from that series.
C11_SensorsReplacedExactlyOnAuthoritativeCommit ==
    [][ screen = "Screen" =>
        /\ chartOptions'.sensors # chartOptions.sensors
           => ( lastEvent'.kind = "temperatureResolved"
                /\ lastEvent'.id = issued )
        /\ ( /\ lastEvent'.kind \in {"temperatureResolved", "temperatureFailed"}
             /\ lastEvent'.id = issued )
           => chartOptions'.sensors = SensorsOf(calls[issued].data) ]_vars

\* C12: the options that a commit computes from a series have one entry per
\* channel of the first reading, in its order, selected when the 0-based
\* index is below 3 and coloured ChartColours[index mod length]; the
\* two-channel series gives two selected options with the first two colours.
C12_ChannelOptionsOfFirstReading ==
    [][ lastEvent'.kind = "temperatureResolved" =>
        LET series == calls[lastEvent'.id].data
            first == series[1].readings
            options == chartOptions'.sensors
        IN  /\ Len(options) = Len(first)
            /\ \A i \in 1..Len(first) :
                  /\ options[i].name = first[i].name
                  /\ options[i].isSelected = (i <= 3)
                  /\ options[i].colour =
                         ChartColours[((i - 1) % Len(ChartColours)) + 1]
            /\ series = TwoChannelSeries =>
                  options = << [name |-> "s1", isSelected |-> TRUE,
                                colour |-> ChartColours[1]],
                               [name |-> "s2", isSelected |-> TRUE,
                                colour |-> ChartColours[2]] >> ]_vars

\* C12 witness: the options of the four-channel series are committed; the
\* fourth is not selected and its colour wraps round to the first
C12_Witness ==
    /\ lastEvent.kind = "temperatureResolved"
    /\ Len(chartOptions.sensors) = 4
    /\ chartOptions.sensors[3].isSelected
    /\ chartOptions.sensors[4] =
           [name |-> "s4", isSelected |-> FALSE, colour |-> ChartColours[1]]

\* Every channel value of every reading of a series
ChannelValues(series) ==
    UNION { { series[r].readings[c].value : c \in 1..Len(series[r].readings) }
            : r \in 1..Len(series) }

\* C13: in Screen, for a non-empty committed series dataRange is <<min, max>>
\* of the channel values of all readings, so dataRange[1] <= dataRange[2].
C13_DataRangeIsMinMax ==
    ( screen = "Screen" /\ data.isArray /\ data.items # <<>> )
    => /\ Len(dataRange) = 2
       /\ dataRange[1] \in ChannelValues(data.items)
       /\ dataRange[2] \in ChannelValues(data.items)
       /\ \A v \in ChannelValues(data.items) :
              dataRange[1] <= v /\ v <= dataRange[2]
       /\ dataRange[1] <= dataRange[2]

\* C13 witness: the series whose extrema are in the second reading has just
\* been committed with dataRange <<-2, 9>>
C13_Witness ==
    /\ screen = "Screen"
    /\ lastEvent.kind = "fetchDataResolved"
    /\ data = Arr(FourChannelSeries)
    /\ dataRange = <<-2, 9>>

\* C14: the scale a commit sets is the dataRange of the committed series when
\* modelOptions.colourMode is 0 (adaptive) in the state the commit happens
\* in, and the table entry of the committed dataType otherwise.
C14_ScaleFollowsColourModeAtCommit ==
    [][ lastEvent'.kind = "temperatureResolved" =>
        modelOptions'.scale =
            IF modelOptions.colourMode = 0
            THEN ComputeDataRange(calls[lastEvent'.id].data)
            ELSE ModelColourScale(calls[lastEvent'.id].dataType) ]_vars

\* C15: modelOptions.scale is never the undefined that a missing key of the
\* fixed colour-scale table reads as.
C15_ScaleNeverUndefined == modelOptions.scale # UndefinedScale

\* C16: before any step the Screen is in Model mode and Historical, not
\* loading, with an empty series, no refresh issued and no live-status
\* notification processed.
C16_InitialState ==
    lastEvent.kind = "mount"
    => /\ mode = 0
       /\ liveMode = 1
       /\ isLoading = FALSE
       /\ data = Arr(<<>>)
       /\ issued = 0
       /\ live = FALSE

\* C16 witness: the mounted Screen, the mount effect not yet run
C16_Witness ==
    /\ screen = "Screen"
    /\ lastEvent.kind = "mount"
    /\ effectPending
    /\ mode = 0
    /\ liveMode = 1

\* Nothing has been committed yet
Untouched ==
    /\ data = Arr(<<>>)
    /\ dataRange = <<>>
    /\ chartOptions.sensors = <<>>
    /\ modelOptions.scale = <<0, 0>>

\* dataRange, the channel options and the model scale all derive from series
DerivedFrom(series) ==
    /\ dataRange = ComputeDataRange(series)
    /\ chartOptions.sensors = SensorsOf(series)
    /\ modelOptions.scale =
           ComputeScale(modelOptions.colourMode, dataType,
                        ComputeDataRange(series))

\* C17: in Screen, in the state right after a refresh has settled, dataRange,
\* chartOptions.sensors and modelOptions.scale all derive from the series in
\* data (or nothing has been committed at all).
C17_CommitIsAllOrNothing ==
    ( /\ screen = "Screen"
      /\ lastEvent.kind \in SettleKinds
      /\ lastEvent.id \notin InFlight )
    => /\ data.isArray
       /\ Untouched \/ DerivedFrom(data.items)

\* C18: the step in which a refresh commits its options leaves showContext,
\* colourMode and showTemperature as they were in the state before it.
C18_CommitKeepsUserOptions ==
    [][ lastEvent'.kind = "temperatureResolved" =>
        /\ chartOptions'.showTemperature = chartOptions.showTemperature
        /\ modelOptions'.colourMode = modelOptions.colourMode
        /\ modelOptions'.showContext = modelOptions.showContext ]_vars

\* C19: in SteelFrameScreen modelModeEnabled is true exactly when dataType is
\* not "raw", and right after a refresh of another dataType has committed,
\* mode is what it was before the commit.
C19_ModelModeEnabledIffNotRaw ==
    screen = "SteelFrameScreen"
    => /\ modelModeEnabled <=> (dataType # "raw")
       /\ ( lastEvent.kind = "fetchDataResolved" /\ dataType # "raw" )
          => mode = lastEvent.modeBefore

\* C19 witness: after a raw commit had forced chart mode, a refresh of "str"
\* has just committed: the model button is enabled, the mode is still Chart
C19_Witness ==
    /\ screen = "SteelFrameScreen"
    /\ lastEvent.kind = "fetchDataResolved"
    /\ issued >= 2
    /\ dataType = "str"
    /\ modelModeEnabled
    /\ lastEvent.modeBefore = 1
    /\ mode = 1

\* C20: whenever no refresh is outstanding isLoading is false, and when every
\* issued fetch settles, isLoading = TRUE leads to isLoading = FALSE.
C20_LoadingEventuallyCleared ==
    /\ [](InFlight = {} => ~isLoading)
    /\ (isLoading ~> ~isLoading)

\* C20 witness: the only refresh issued has failed, nothing is outstanding
\* and the catch path has cleared isLoading
C20_Witness ==
    /\ lastEvent.kind = "fetchDataFailed"
    /\ issued = 1
    /\ InFlight = {}
    /\ ~isLoading

====
